---- MODULE Spec2Model ----
(***************************************************************************)
(* Model of the Medical Symptom Analyzer (src/chatbot.py): the Streamlit   *)
(* script (key check, client creation, cached directory load, main page    *)
(* dispatch) and the functions generate_medical_response,                  *)
(* display_medical_response, display_doctors_list, load_doctors_database.  *)
(*                                                                         *)
(* Python strings are modelled as sequences of text chunks (a chunk is a   *)
(* TLA+ string; the chunk " " is whitespace), so that emptiness, strip()   *)
(* and concatenation are computed and not assumed.                         *)
(***************************************************************************)
EXTENDS Integers, Sequences, FiniteSets, TLC

VARIABLES
    pc,                \* position of the script run / of the function call
    os_environ,        \* GROQ_API_KEY in the process environment ("unset" when absent)
    dotenv_file,       \* GROQ_API_KEY in the .env file ("unset" when absent)
    csv_file,          \* doctors_database.csv on disk
    groq_api_key,      \* module global, line 20
    client,            \* module global, line 25
    cache,             \* st.cache_data entry of load_doctors_database
    DOCTORS_DATABASE,  \* module global, line 45
    runs,              \* script runs started so far (Streamlit reruns the script)
    page,              \* sidebar selection of this run
    symptoms,          \* text area content of this run / argument of analyze
    submit_button,     \* form submitted in this run
    doctors_data,      \* directory argument of generate_medical_response
    backend,           \* behaviour of the completion endpoint for the call
    response,          \* value returned by generate_medical_response
    calls,             \* client.chat.completions.create invocations of this run
    screen,            \* elements rendered in this run, in order
    fault              \* exception that escaped this run ("none" otherwise)

vars == <<pc, os_environ, dotenv_file, csv_file, groq_api_key, client, cache,
          DOCTORS_DATABASE, runs, page, symptoms, submit_button, doctors_data,
          backend, response, calls, screen, fault>>

\* Number of script runs explored (each user interaction reruns the script).
MaxRuns == 2

(***************************************************************************)
(* Strings                                                                 *)
(***************************************************************************)
SP == " "

RECURSIVE lstrip(_)
lstrip(s) == IF s # <<>> /\ Head(s) = SP THEN lstrip(Tail(s)) ELSE s

RECURSIVE rstrip(_)
rstrip(s) ==
    IF s # <<>> /\ s[Len(s)] = SP THEN rstrip(SubSeq(s, 1, Len(s) - 1)) ELSE s

\* a strip() that forgets to strip
strip_identity(s) == s

\* str.strip(): leading and trailing whitespace removed
strip(s) == rstrip(lstrip(s))

\* str.lower() on the chunks the model uses
lower_chunk(c) ==
    CASE c = "HIGH" -> "high"
      [] c = "High" -> "high"
      [] c = "Medium" -> "medium"
      [] c = "LOW" -> "low"
      [] OTHER -> c

lower(s) == [i \in 1..Len(s) |-> lower_chunk(s[i])]

\* str.split(): the whitespace-separated words (their number is what matters)
RECURSIVE split(_)
split(s) ==
    LET t == lstrip(s)
        RECURSIVE word_end(_)
        word_end(i) == IF i <= Len(t) /\ t[i] # SP THEN word_end(i + 1) ELSE i
    IN IF t = <<>> THEN <<>>
       ELSE LET e == word_end(1)
            IN <<SubSeq(t, 1, e - 1)>> \o split(SubSeq(t, e, Len(t)))

(***************************************************************************)
(* JSON values: every value carries a tag t, a string s and a list l       *)
(***************************************************************************)
JStr(s)  == [t |-> "str",  s |-> s,    l |-> <<>>]
JNum     == [t |-> "num",  s |-> <<>>, l |-> <<>>]
JList(l) == [t |-> "list", s |-> <<>>, l |-> l]
JNull    == [t |-> "null", s |-> <<>>, l |-> <<>>]

\* The empty dict {}
EmptyObj == [k \in {} |-> JNull]


(***************************************************************************)
(* JSON text: a sequence of tokens.  An object is written                  *)
(*   {  "k1": v1  "k2": v2 ...  }                                          *)
(* Nested values are carried by their pair token.                          *)
(***************************************************************************)
LB         == [tok |-> "{",    k |-> "", val |-> JNull]
RB         == [tok |-> "}",    k |-> "", val |-> JNull]
Pair(k, v) == [tok |-> "pair", k |-> k,  val |-> v]
Word(w)    == [tok |-> "word", k |-> w,  val |-> JNull]

\* The text of the object obj with its members written in the order keys
Serialize(obj, keys) ==
    <<LB>> \o [i \in 1..Len(keys) |-> Pair(keys[i], obj[keys[i]])] \o <<RB>>

\* message.content of a completion: a text, or None
Text(toks) == [isNone |-> FALSE, toks |-> toks]
NoneContent == [isNone |-> TRUE, toks |-> <<>>]

\* Exceptions: class name and str(e)
Exc(name, msg) == [exc |-> name, msg |-> msg]
NoExc == Exc("none", <<>>)

\* Is toks the text of a JSON object?
IsObjectText(toks) ==
    /\ Len(toks) >= 2
    /\ toks[1] = LB
    /\ toks[Len(toks)] = RB
    /\ \A i \in 2..(Len(toks) - 1) : toks[i].tok = "pair"

\* json.loads (line 103): TypeError on None, JSONDecodeError on a text that is
\* not JSON, else the dict (the last of duplicate members wins)
json_loads(content) ==
    IF content.isNone
    THEN [raised |-> TRUE,
          exc |-> Exc("TypeError", <<"the JSON object must be str, bytes or bytearray, not NoneType">>),
          value |-> EmptyObj]
    ELSE IF ~IsObjectText(content.toks)
    THEN [raised |-> TRUE,
          exc |-> Exc("JSONDecodeError", <<"Expecting value">>),
          value |-> EmptyObj]
    ELSE LET toks == content.toks
             keys == {toks[i].k : i \in 2..(Len(toks) - 1)}
             last(k) == CHOOSE i \in 2..(Len(toks) - 1) :
                            /\ toks[i].k = k
                            /\ \A j \in 2..(Len(toks) - 1) : toks[j].k = k => j <= i
         IN [raised |-> FALSE, exc |-> NoExc,
             value |-> [k \in keys |-> toks[last(k)].val]]

(***************************************************************************)
(* The completion endpoint                                                 *)
(***************************************************************************)
\* A backend behaviour: the call raises exc, or returns the list choices
Raises(e)        == [kind |-> "raise",  exc |-> e,     choices |-> <<>>]
Returns(choices) == [kind |-> "return", exc |-> NoExc, choices |-> choices]

\* client.chat.completions.create (lines 92-101)
create(b) ==
    IF b.kind = "raise"
    THEN [raised |-> TRUE, exc |-> b.exc, choices |-> <<>>]
    ELSE [raised |-> FALSE, exc |-> NoExc, choices |-> b.choices]

(***************************************************************************)
(* Directory records: a dict from column names to cell values              *)
(***************************************************************************)
CStr(s) == [t |-> "str", s |-> s]      \* a str
CNum(s) == [t |-> "num", s |-> s]      \* an int or float parsed from the text s
CNaN    == [t |-> "nan", s |-> <<>>]   \* float('nan'): a missing cell
CObj    == [t |-> "obj", s |-> <<>>]   \* a value json cannot encode

\* json.dumps(doctors_data) (line 63) raises TypeError on a value it cannot encode
json_dumps_raises(dir) ==
    \E i \in 1..Len(dir) : \E k \in DOMAIN dir[i] : dir[i][k].t = "obj"

(***************************************************************************)
(* generate_medical_response (lines 48-113)                                *)
(***************************************************************************)
FallbackAdvice == <<"Unable to analyze symptoms at this time.">>
FallbackDisclaimer == <<"This is not medical advice. Please consult a healthcare professional.">>

\* the handler's dict with the bare str(e) as the error text
FailureResult_bare(e) ==
    [error |-> JStr(e.msg),
     possible_conditions |-> JList(<<>>),
     recommended_doctors |-> JList(<<>>),
     general_advice |-> JStr(FallbackAdvice),
     disclaimer |-> JStr(FallbackDisclaimer)]

\* The dict of the except branch (lines 107-113)
FailureResult(e) ==
    [error |-> JStr(<<"An error occurred: ">> \o e.msg),
     possible_conditions |-> JList(<<>>),
     recommended_doctors |-> JList(<<>>),
     general_advice |-> JStr(FallbackAdvice),
     disclaimer |-> JStr(FallbackDisclaimer)]

Returned(v, n) == [raised |-> FALSE, exc |-> NoExc, value |-> v, calls |-> n]
Raised(e, n)   == [raised |-> TRUE,  exc |-> e, value |-> EmptyObj, calls |-> n]

\* the likelihood of every condition of v put in lower case
NormalizeLikelihood(v) ==
    [k \in DOMAIN v |->
        IF k = "possible_conditions" /\ v[k].t = "list"
        THEN JList([i \in 1..Len(v[k].l) |->
                      [f \in DOMAIN v[k].l[i] |->
                          IF f = "likelihood" /\ v[k].l[i][f].t = "str"
                          THEN JStr(lower(v[k].l[i][f].s))
                          ELSE v[k].l[i][f]]])
        ELSE v[k]]

\* the success path canonicalising the likelihood literals before returning
generate_medical_response_normalizing(symptoms_, doctors_data_, b) ==
    IF json_dumps_raises(doctors_data_)
    THEN Raised(Exc("TypeError", <<"Object is not JSON serializable">>), 0)
    ELSE LET r == create(b) IN
         IF r.raised THEN Returned(FailureResult(r.exc), 1)
         ELSE IF r.choices = <<>>
         THEN Returned(FailureResult(Exc("IndexError", <<"list index out of range">>)), 1)
         ELSE LET p == json_loads(r.choices[1]) IN
              IF p.raised THEN Returned(FailureResult(p.exc), 1)
              ELSE Returned(NormalizeLikelihood(p.value), 1)

\* Prompt construction (lines 51-88) is outside the try block; the call and
\* the parse (lines 90-104) are inside; except Exception (lines 106-113)
generate_medical_response(symptoms_, doctors_data_, b) ==
    IF json_dumps_raises(doctors_data_)
    THEN Raised(Exc("TypeError", <<"Object is not JSON serializable">>), 0)
    ELSE LET r == create(b) IN
         IF r.raised THEN Returned(FailureResult(r.exc), 1)
         ELSE IF r.choices = <<>>
         THEN Returned(FailureResult(Exc("IndexError", <<"list index out of range">>)), 1)
         ELSE LET p == json_loads(r.choices[1]) IN
              IF p.raised THEN Returned(FailureResult(p.exc), 1)
              ELSE Returned(p.value, 1)

(***************************************************************************)
(* The output structure the prompt asks for (lines 66-86)                  *)
(***************************************************************************)
ConditionKeys == {"condition", "likelihood", "description", "general_treatment",
                  "recommended_specialist"}
DoctorKeys == {"name", "specialization", "experience", "contact"}
ResultKeys == {"possible_conditions", "recommended_doctors", "general_advice",
               "disclaimer"}
Likelihoods == {<<"low">>, <<"medium">>, <<"high">>}

IsDictOfStr(d, keys) == DOMAIN d = keys /\ \A k \in keys : d[k].t = "str"

\* obj follows the structure of lines 66-86
Conforms(obj) ==
    /\ DOMAIN obj = ResultKeys
    /\ obj["possible_conditions"].t = "list"
    /\ \A i \in 1..Len(obj["possible_conditions"].l) :
          LET c == obj["possible_conditions"].l[i] IN
          /\ IsDictOfStr(c, ConditionKeys)
          /\ lower(c["likelihood"].s) \in Likelihoods
    /\ obj["recommended_doctors"].t = "list"
    /\ \A i \in 1..Len(obj["recommended_doctors"].l) :
          IsDictOfStr(obj["recommended_doctors"].l[i], DoctorKeys)
    /\ obj["general_advice"].t = "str"
    /\ obj["disclaimer"].t = "str"
    /\ obj["disclaimer"].s # <<>>

(***************************************************************************)
(* Inputs explored                                                         *)
(***************************************************************************)
Condition(name, likelihood) ==
    [condition |-> JStr(<<name>>), likelihood |-> likelihood,
     description |-> JStr(<<"...">>), general_treatment |-> JStr(<<"...">>),
     recommended_specialist |-> JStr(<<"Pulmonology">>)]

Doctor(name) ==
    [name |-> JStr(name), specialization |-> JStr(<<"Pulmonology">>),
     experience |-> JStr(<<"14", SP, "years">>), contact |-> JStr(<<"555-0128">>)]

Wilson == <<"Dr.", SP, "James", SP, "Wilson">>

ResultObj(conds, docs) ==
    [possible_conditions |-> conds, recommended_doctors |-> docs,
     general_advice |-> JStr(<<"Rest.">>), disclaimer |-> JStr(<<"Consult a doctor.">>)]

ObjBronchitis ==
    ResultObj(JList(<<Condition("Bronchitis", JStr(<<"medium">>))>>),
              JList(<<Doctor(Wilson)>>))
ObjUpper ==
    ResultObj(JList(<<Condition("Asthma", JStr(<<"HIGH">>)),
                      Condition("Cold", JStr(<<"low">>))>>), JList(<<>>))
ObjVeryHigh ==
    ResultObj(JList(<<Condition("Flu", JStr(<<"very high">>))>>), JList(<<>>))
ObjNumLikelihood ==
    ResultObj(JList(<<Condition("Flu", JNum)>>), JList(<<>>))
ObjCondsNotList == ResultObj(JStr(<<"none">>), JList(<<>>))
ObjBlankDoctor == ResultObj(JList(<<>>), JList(<<Doctor(<<SP>>)>>))
ObjNoDisclaimer ==
    [k \in ResultKeys \ {"disclaimer"} |-> ObjBronchitis[k]]
ObjWithError ==
    [k \in ResultKeys \cup {"error"} |->
        IF k = "error" THEN JStr(<<"model refused">>) ELSE ObjBronchitis[k]]

KeyOrder == <<"possible_conditions", "recommended_doctors", "general_advice",
              "disclaimer", "error">>

\* the members of obj in the order of KeyOrder
KeysOf(obj) == SelectSeq(KeyOrder, LAMBDA k : k \in DOMAIN obj)

Objects == {ObjBronchitis, ObjUpper, ObjVeryHigh, ObjNumLikelihood, ObjCondsNotList,
            ObjBlankDoctor, ObjNoDisclaimer, ObjWithError, EmptyObj}

Contents ==
    {Text(Serialize(o, KeysOf(o))) : o \in Objects}
    \cup {Text(<<LB, Pair("disclaimer", JStr(<<"first">>))>>
               \o Tail(Serialize(ObjBronchitis, KeysOf(ObjBronchitis)))),  \* duplicate member
          Text(<<Word("I think you have a cold")>>),                       \* plain text
          Text(SubSeq(Serialize(ObjBronchitis, KeysOf(ObjBronchitis)), 1, 3)), \* truncated
          Text(<<>>),                                                       \* empty body
          NoneContent}

Backends ==
    {Raises(Exc("APIConnectionError", <<"Connection error.">>)),
     Raises(Exc("AuthenticationError", <<"Error code: 401">>)),
     Raises(Exc("RateLimitError", <<"Error code: 429">>)),
     Raises(Exc("Exception", <<>>)),
     Returns(<<>>)}
    \cup {Returns(<<c>>) : c \in Contents}

SymptomTexts ==
    {<<>>, <<SP>>, <<SP, SP>>, <<"cough">>, <<SP, "cough", SP>>,
     <<"dry", SP, "cough">>}

(***************************************************************************)
(* Rendering: the st.* calls completed so far, and the exception raised    *)
(***************************************************************************)
W(widget, text) == [w |-> widget, s |-> text]
Shown(scr) == [scr |-> scr, exc |-> NoExc]
Show(st, widget, text) == [st EXCEPT !.scr = Append(@, W(widget, text))]
Fail(st, e) == [st EXCEPT !.exc = e]
KeyError(k) == Exc("KeyError", <<k>>)

\* int(float(v)) (lines 172, 238) raises ValueError on NaN and on a text that
\* is not a number
IntFloatRaises(v) == v.t # "num"

\* Line 233: next((d for d in DOCTORS_DATABASE if d["name"] == name), None)
RECURSIVE FindDoctor(_, _)
FindDoctor(db, name) ==
    IF db = <<>> THEN [exc |-> NoExc, found |-> FALSE, d |-> [k \in {} |-> CNaN]]
    ELSE IF "name" \notin DOMAIN Head(db)
    THEN [exc |-> KeyError("name"), found |-> FALSE, d |-> [k \in {} |-> CNaN]]
    ELSE IF name.t = "str" /\ Head(db)["name"].t = "str" /\ Head(db)["name"].s = name.s
    THEN [exc |-> NoExc, found |-> TRUE, d |-> Head(db)]
    ELSE FindDoctor(Tail(db), name)

\* Lines 206-217: one entry of possible_conditions
RenderCondition(st, c) ==
    IF "likelihood" \notin DOMAIN c THEN Fail(st, KeyError("likelihood"))
    ELSE IF c["likelihood"].t # "str"
    THEN Fail(st, Exc("AttributeError", <<"object has no attribute 'lower'">>))
    ELSE IF "condition" \notin DOMAIN c THEN Fail(st, KeyError("condition"))
    ELSE LET likelihood == lower(c["likelihood"].s)
             color == IF likelihood = <<"high">> THEN "red"
                      ELSE IF likelihood = <<"medium">> THEN "orange" ELSE "green"
             st1 == Show(st, "expander", <<color>> \o c["condition"].s \o c["likelihood"].s)
         IN IF "description" \notin DOMAIN c THEN Fail(st1, KeyError("description"))
            ELSE IF "general_treatment" \notin DOMAIN c
            THEN Fail(Show(st1, "markdown", c["description"].s), KeyError("general_treatment"))
            ELSE IF "recommended_specialist" \notin DOMAIN c
            THEN Fail(Show(Show(st1, "markdown", c["description"].s),
                           "markdown", c["general_treatment"].s),
                      KeyError("recommended_specialist"))
            ELSE Show(Show(Show(st1, "markdown", c["description"].s),
                           "markdown", c["general_treatment"].s),
                      "markdown", c["recommended_specialist"].s)

RECURSIVE RenderConditions(_, _)
RenderConditions(st, l) ==
    IF l = <<>> \/ st.exc # NoExc THEN st
    ELSE RenderConditions(RenderCondition(st, Head(l)), Tail(l))

\* Lines 227-230: the four fields, subscripted in this order
RECURSIVE RenderFields(_, _, _)
RenderFields(st, doctor, keys) ==
    IF keys = <<>> THEN st
    ELSE IF Head(keys) \notin DOMAIN doctor THEN Fail(st, KeyError(Head(keys)))
    ELSE RenderFields(Show(st, "markdown", doctor[Head(keys)].s), doctor, Tail(keys))

\* Lines 227-240: one entry of recommended_doctors
RenderDoctor(st, doctor, db) ==
    LET st1 == RenderFields(st, doctor, <<"name", "specialization", "experience", "contact">>)
    IN IF st1.exc # NoExc THEN st1
       ELSE LET f == FindDoctor(db, doctor["name"])
                IN IF f.exc # NoExc THEN Fail(st1, f.exc)
                   ELSE LET st2 == IF f.found /\ "hospital" \in DOMAIN f.d
                                   THEN Show(st1, "markdown", f.d["hospital"].s) ELSE st1
                        IN IF f.found /\ "rating" \in DOMAIN f.d /\ IntFloatRaises(f.d["rating"])
                           THEN Fail(st2, Exc("ValueError", <<"cannot convert to integer">>))
                           ELSE LET st3 == IF f.found /\ "rating" \in DOMAIN f.d
                                           THEN Show(st2, "markdown", f.d["rating"].s) ELSE st2
                                IN IF doctor["name"].t # "str"
                                   THEN Fail(st3, Exc("AttributeError", <<"object has no attribute 'split'">>))
                                   ELSE IF split(doctor["name"].s) = <<>>
                                   THEN Fail(st3, Exc("IndexError", <<"list index out of range">>))
                                   ELSE Show(st3, "button", split(doctor["name"].s)[Len(split(doctor["name"].s))])

RECURSIVE RenderDoctors(_, _, _)
RenderDoctors(st, l, db) ==
    IF l = <<>> \/ st.exc # NoExc THEN st
    ELSE RenderDoctors(RenderDoctor(st, Head(l), db), Tail(l), db)

\* display_medical_response (lines 190-244), rendering after what st shows
display_medical_response(st, resp, db) ==
    IF "error" \in DOMAIN resp
    THEN Show(Show(st, "error", <<"Error: ">> \o resp["error"].s),
              "warning", <<"Unable to analyze symptoms at this time.">>)
    ELSE IF "general_advice" \notin DOMAIN resp THEN Fail(st, KeyError("general_advice"))
    ELSE LET st1 == Show(Show(Show(st, "subheader", <<"General Advice">>),
                              "info", resp["general_advice"].s),
                         "subheader", <<"Possible Conditions">>)
         IN IF "possible_conditions" \notin DOMAIN resp
            THEN Fail(st1, KeyError("possible_conditions"))
            ELSE IF resp["possible_conditions"].t # "list"
                    /\ ~(resp["possible_conditions"].t = "str"
                         /\ resp["possible_conditions"].s = <<>>)
            THEN Fail(st1, Exc("TypeError", <<"string indices must be integers">>))
            ELSE LET st2 == RenderConditions(st1, resp["possible_conditions"].l)
                 IN IF st2.exc # NoExc THEN st2
                    ELSE IF "recommended_doctors" \notin DOMAIN resp
                    THEN Fail(st2, KeyError("recommended_doctors"))
                    ELSE IF resp["recommended_doctors"].t = "num"
                    THEN Fail(st2, Exc("TypeError", <<"object has no len()">>))
                    ELSE IF resp["recommended_doctors"].t = "str"
                            /\ resp["recommended_doctors"].s # <<>>
                    THEN Fail(Show(st2, "subheader", <<"Recommended Doctors">>),
                              Exc("TypeError", <<"string indices must be integers">>))
                    ELSE LET docs == resp["recommended_doctors"].l
                             st3 == IF docs = <<>> THEN st2
                                    ELSE RenderDoctors(
                                           Show(st2, "subheader", <<"Recommended Doctors">>),
                                           docs, db)
                         IN IF st3.exc # NoExc THEN st3
                            ELSE IF "disclaimer" \notin DOMAIN resp
                            THEN Fail(Show(st3, "markdown", <<"---">>), KeyError("disclaimer"))
                            ELSE Show(Show(st3, "markdown", <<"---">>),
                                      "caption", resp["disclaimer"].s)

(***************************************************************************)
(* doctors_database.csv and load_doctors_database (lines 28-45)            *)
(***************************************************************************)
TextCell(s) == [t |-> "text",  s |-> s]
NumCell(s)  == [t |-> "num",   s |-> s]
EmptyCell   == [t |-> "empty", s |-> <<>>]

CsvFile(header, rows) ==
    [exists |-> TRUE, decodable |-> TRUE, header |-> header, rows |-> rows]
NoFile == [exists |-> FALSE, decodable |-> TRUE, header |-> <<>>, rows |-> <<>>]
BinaryFile == [exists |-> TRUE, decodable |-> FALSE, header |-> <<>>, rows |-> <<>>]

\* The value pandas gives a cell: an empty cell is NaN
CellValue(c) ==
    CASE c.t = "text" -> CStr(c.s)
      [] c.t = "num" -> CNum(c.s)
      [] OTHER -> CNaN

Col(header, name) == CHOOSE j \in 1..Len(header) : header[j] = name

\* pd.read_csv(...).to_dict(orient="records") (lines 32-34): one dict per data
\* row, keyed by the header's column names; a short row is padded with NaN
read_csv(f) ==
    IF ~f.exists
    THEN [raised |-> TRUE, exc |-> Exc("FileNotFoundError", <<"No such file">>), value |-> <<>>]
    ELSE IF ~f.decodable
    THEN [raised |-> TRUE, exc |-> Exc("UnicodeDecodeError", <<"invalid start byte">>), value |-> <<>>]
    ELSE IF f.header = <<>>
    THEN [raised |-> TRUE, exc |-> Exc("EmptyDataError", <<"No columns to parse from file">>), value |-> <<>>]
    ELSE IF \E i \in 1..Len(f.rows) : Len(f.rows[i]) > Len(f.header)
    THEN [raised |-> TRUE, exc |-> Exc("ParserError", <<"Error tokenizing data">>), value |-> <<>>]
    ELSE [raised |-> FALSE, exc |-> NoExc,
          value |-> [i \in 1..Len(f.rows) |->
                       [name \in {f.header[j] : j \in 1..Len(f.header)} |->
                          IF Col(f.header, name) <= Len(f.rows[i])
                          THEN CellValue(f.rows[i][Col(f.header, name)])
                          ELSE CNaN]]]

DirRecord(name, specialization, experience, contact) ==
    [name |-> CStr(name), specialization |-> CStr(<<specialization>>),
     experience |-> CStr(experience), contact |-> CStr(<<contact>>)]

\* The default database (lines 38-42)
FallbackDirectory ==
    <<DirRecord(<<"Dr.", SP, "Alice", SP, "Johnson">>, "Cardiology", <<"15", SP, "years">>, "555-0123"),
      DirRecord(<<"Dr.", SP, "Robert", SP, "Smith">>, "Neurology", <<"12", SP, "years">>, "555-0124"),
      DirRecord(<<"Dr.", SP, "Jennifer", SP, "Garcia">>, "General Practice", <<"8", SP, "years">>, "555-0133")>>

Loaded(v, scr) == [raised |-> FALSE, exc |-> NoExc, value |-> v, scr |-> scr]

\* the except branch returning no records
load_doctors_database_empty(f) ==
    LET r == read_csv(f) IN
    IF r.raised
    THEN Loaded(<<>>, <<W("error", <<"Error loading doctors database: ">> \o r.exc.msg)>>)
    ELSE Loaded(r.value, <<>>)

\* The body of load_doctors_database (lines 30-42)
load_doctors_database(f) ==
    LET r == read_csv(f) IN
    IF r.raised
    THEN Loaded(FallbackDirectory,
                <<W("error", <<"Error loading doctors database: ">> \o r.exc.msg)>>)
    ELSE Loaded(r.value, <<>>)

(***************************************************************************)
(* display_doctors_list (lines 116-187)                                    *)
(***************************************************************************)
AllSpecialties == CStr(<<"All Specialties">>)

\* a in b, for strings (lines 135-136)
Contains(a, b) ==
    \E i \in 0..(Len(b) - Len(a)) : SubSeq(b, i + 1, i + Len(a)) = a

\* Lines 135-136: the search filter, one record after the other
RECURSIVE SearchFilter(_, _)
SearchFilter(db, term) ==
    IF db = <<>> THEN [exc |-> NoExc, out |-> <<>>]
    ELSE LET doc == Head(db) IN
         IF "name" \notin DOMAIN doc THEN [exc |-> KeyError("name"), out |-> <<>>]
         ELSE IF doc["name"].t # "str"
         THEN [exc |-> Exc("AttributeError", <<"object has no attribute 'lower'">>), out |-> <<>>]
         ELSE IF Contains(lower(term), lower(doc["name"].s))
         THEN LET r == SearchFilter(Tail(db), term)
              IN [exc |-> r.exc, out |-> <<doc>> \o r.out]
         ELSE IF "specialization" \in DOMAIN doc /\ doc["specialization"].t # "str"
         THEN [exc |-> Exc("AttributeError", <<"object has no attribute 'lower'">>), out |-> <<>>]
         ELSE LET r == SearchFilter(Tail(db), term)
                  hit == /\ "specialization" \in DOMAIN doc
                         /\ doc["specialization"].s # <<>>
                         /\ Contains(lower(term), lower(doc["specialization"].s))
              IN [exc |-> r.exc, out |-> IF hit THEN <<doc>> \o r.out ELSE r.out]

Get(doc, k) == IF k \in DOMAIN doc THEN doc[k].s ELSE <<"N/A">>

\* Lines 156-187: one card of the grid
RenderCard(st, doctor) ==
    IF "name" \notin DOMAIN doctor THEN Fail(st, KeyError("name"))
    ELSE LET st1 == Show(Show(Show(st, "markdown", doctor["name"].s),
                              "markdown", Get(doctor, "specialization")),
                         "markdown", Get(doctor, "experience"))
             st2 == IF "hospital" \in DOMAIN doctor
                    THEN Show(st1, "markdown", doctor["hospital"].s) ELSE st1
             st3 == IF "availability" \in DOMAIN doctor
                    THEN Show(st2, "markdown", doctor["availability"].s) ELSE st2
             st4 == Show(st3, "markdown", Get(doctor, "contact"))
         IN IF "rating" \in DOMAIN doctor /\ IntFloatRaises(doctor["rating"])
            THEN Fail(st4, Exc("ValueError", <<"cannot convert to integer">>))
            ELSE LET st5 == IF "rating" \in DOMAIN doctor
                            THEN Show(st4, "markdown", doctor["rating"].s) ELSE st4
                 IN IF doctor["name"].t # "str"
                    THEN Fail(st5, Exc("AttributeError", <<"object has no attribute 'split'">>))
                    ELSE IF split(doctor["name"].s) = <<>>
                    THEN Fail(st5, Exc("IndexError", <<"list index out of range">>))
                    ELSE Show(Show(st5, "button",
                                   split(doctor["name"].s)[Len(split(doctor["name"].s))]),
                              "markdown", <<"---">>)

RECURSIVE RenderCards(_, _)
RenderCards(st, l) ==
    IF l = <<>> \/ st.exc # NoExc THEN st
    ELSE RenderCards(RenderCard(st, Head(l)), Tail(l))

\* The specialties offered by the select box (lines 128-130)
Specialties(db) ==
    {db[i]["specialization"] : i \in {j \in 1..Len(db) : "specialization" \in DOMAIN db[j]}}

display_doctors_list(st, db, search_term, selected_specialty) ==
    LET st1 == Show(Show(st, "header", <<"Our Medical Specialists">>),
                    "subheader", <<"Find a Doctor">>)
    IN IF \E i \in 1..Len(db) : "specialization" \notin DOMAIN db[i]
       THEN Fail(st1, KeyError("specialization"))
       ELSE IF \E a, b \in Specialties(db) : a.t = "str" /\ b.t # "str"
       THEN Fail(st1, Exc("TypeError", <<"'<' not supported">>))
       ELSE LET f == IF search_term # <<>> THEN SearchFilter(db, search_term)
                     ELSE [exc |-> NoExc, out |-> db]
            IN IF f.exc # NoExc THEN Fail(st1, f.exc)
               ELSE LET filtered_doctors ==
                            IF selected_specialty # AllSpecialties
                            THEN SelectSeq(f.out,
                                   LAMBDA doc : /\ "specialization" \in DOMAIN doc
                                                /\ selected_specialty.t # "nan"
                                                /\ doc["specialization"] = selected_specialty)
                            ELSE f.out
                        st2 == Show(st1, "write", <<"Found doctors">>)
                    IN IF filtered_doctors = <<>>
                       THEN Show(st2, "info", <<"No doctors match your search criteria.">>)
                       ELSE RenderCards(st2, filtered_doctors)

(***************************************************************************)
(* Files, environments and directories explored                            *)
(***************************************************************************)
EnvValues == {"unset", "", "gsk_key"}

Chen == <<"Dr.", SP, "Wei", SP, "Chen">>
FullHeader == <<"name", "specialization", "experience", "contact", "rating">>
FullRow(name, spec, rating) ==
    <<name, spec, TextCell(<<"9", SP, "years">>), TextCell(<<"555-0101">>), rating>>

CsvFiles ==
    {NoFile, BinaryFile,
     CsvFile(<<>>, <<>>),                                       \* empty file
     CsvFile(<<"name", "specialization">>, <<>>),               \* header only
     CsvFile(FullHeader,
             <<FullRow(TextCell(Wilson), TextCell(<<"Pulmonology">>), NumCell(<<"4.5">>)),
               FullRow(TextCell(Chen), TextCell(<<"Cardiology">>), NumCell(<<"5">>))>>),
     CsvFile(FullHeader,                                        \* cells left empty
             <<FullRow(TextCell(Wilson), EmptyCell, EmptyCell),
               FullRow(EmptyCell, TextCell(<<"Cardiology">>), NumCell(<<"5">>))>>),
     CsvFile(<<"name", "contact">>,                             \* no specialization column
             <<<<TextCell(Chen), TextCell(<<"555-0101">>)>>>>),
     CsvFile(<<"name", "specialization">>,                      \* a row with too many fields
             <<<<TextCell(Chen), TextCell(<<"Cardiology">>)>>,
               <<TextCell(Wilson), TextCell(<<"Pulmonology">>), TextCell(<<"x">>)>>>>),
     CsvFile(<<"name", "specialization">>,                      \* a short row
             <<<<TextCell(Chen)>>>>)}

\* Directories handed to generate_medical_response by a caller
Directories ==
    {FallbackDirectory, <<>>,
     <<DirRecord(Wilson, "Pulmonology", <<"14", SP, "years">>, "555-0128")>>,
     <<[name |-> CStr(Chen), specialization |-> CNaN]>>,
     <<[name |-> CStr(Chen), specialization |-> CStr(<<"Cardiology">>), rating |-> CNum(<<"5">>)]>>,
     <<[name |-> CStr(Chen), specialization |-> CStr(<<"Cardiology">>), joined |-> CObj]>>}

SearchTerms == {<<>>, <<"wilson">>, <<"cardiology">>}

NoBackend == [kind |-> "none", exc |-> NoExc, choices |-> <<>>]
NoCache == [hit |-> FALSE, value |-> <<>>, scr |-> <<>>]

(***************************************************************************)
(* The script (lines 9-45 and main, lines 247-344)                         *)
(***************************************************************************)
Init ==
    /\ pc = "load_dotenv"
    /\ os_environ \in EnvValues
    /\ dotenv_file \in EnvValues
    /\ csv_file \in CsvFiles
    /\ groq_api_key = "undefined"
    /\ client = "undefined"
    /\ cache = NoCache
    /\ DOCTORS_DATABASE = <<>>
    /\ runs = 1
    /\ page = "Symptom Analysis"
    /\ symptoms = <<>>
    /\ submit_button = FALSE
    /\ doctors_data = <<>>
    /\ backend = NoBackend
    /\ response = EmptyObj
    /\ calls = 0
    /\ screen = <<>>
    /\ fault = NoExc

\* load_dotenv() (line 10): a variable already set is not overridden
LoadDotenv ==
    /\ pc = "load_dotenv"
    /\ os_environ' = IF os_environ = "unset" THEN dotenv_file ELSE os_environ
    /\ pc' = "getenv"
    /\ UNCHANGED <<dotenv_file, csv_file, groq_api_key, client, cache, DOCTORS_DATABASE,
                   runs, page, symptoms, submit_button, doctors_data, backend, response,
                   calls, screen, fault>>

\* not groq_api_key (line 21): None and "" are falsy
Falsy(v) == v \in {"unset", ""}

\* the error shown without st.stop(): the script goes on to line 25
KeyMissing_no_stop ==
    /\ pc = "getenv"
    /\ Falsy(os_environ)
    /\ groq_api_key' = os_environ
    /\ screen' = Append(screen, W("error", <<"GROQ_API_KEY not found in environment variables.">>))
    /\ pc' = "create_client"
    /\ UNCHANGED <<os_environ, dotenv_file, csv_file, client, cache, DOCTORS_DATABASE, runs,
                   page, symptoms, submit_button, doctors_data, backend, response, calls,
                   fault>>

\* Lines 20-23 when the key is missing: st.error, st.stop
KeyMissing ==
    /\ pc = "getenv"
    /\ Falsy(os_environ)
    /\ groq_api_key' = os_environ
    /\ screen' = Append(screen, W("error", <<"GROQ_API_KEY not found in environment variables.">>))
    /\ pc' = "stopped"
    /\ UNCHANGED <<os_environ, dotenv_file, csv_file, client, cache, DOCTORS_DATABASE, runs,
                   page, symptoms, submit_button, doctors_data, backend, response, calls,
                   fault>>

\* Lines 20-21 when the key is there
KeyFound ==
    /\ pc = "getenv"
    /\ ~Falsy(os_environ)
    /\ groq_api_key' = os_environ
    /\ pc' = "create_client"
    /\ UNCHANGED <<os_environ, dotenv_file, csv_file, client, cache, DOCTORS_DATABASE, runs,
                   page, symptoms, submit_button, doctors_data, backend, response, calls,
                   screen, fault>>

\* Line 25
CreateClient ==
    /\ pc = "create_client"
    /\ client' = "Groq"
    /\ pc' = "load_db"
    /\ UNCHANGED <<os_environ, dotenv_file, csv_file, groq_api_key, cache, DOCTORS_DATABASE,
                   runs, page, symptoms, submit_button, doctors_data, backend, response,
                   calls, screen, fault>>

\* Line 45, through st.cache_data (line 28): the body runs on a miss only
LoadDatabase ==
    /\ pc = "load_db"
    /\ LET r == load_doctors_database(csv_file)
           entry == IF cache.hit THEN cache
                    ELSE [hit |-> TRUE, value |-> r.value, scr |-> r.scr]
       IN /\ cache' = entry
          /\ DOCTORS_DATABASE' = entry.value
          /\ screen' = screen \o entry.scr
    /\ pc' = "main"
    /\ UNCHANGED <<os_environ, dotenv_file, csv_file, groq_api_key, client, runs, page,
                   symptoms, submit_button, doctors_data, backend, response, calls, fault>>

\* What main() renders before the page (lines 249-272)
MainHead(scr) == Append(scr, W("title", <<"Medical Symptom Analyzer">>))

\* Page "Symptom Analysis" (lines 275-308): the form, then on a submission
\* either the analysis and its display or the validation error
SymptomAnalysis ==
    /\ pc = "main"
    /\ \E text \in SymptomTexts, submitted \in BOOLEAN, b \in Backends :
         LET st0 == Shown(Append(MainHead(screen), W("form", text)))
             g == generate_medical_response(text, DOCTORS_DATABASE, b)
             st1 == IF "error" \notin DOMAIN g.value
                    THEN Show(st0, "success", <<"Analysis completed!">>) ELSE st0
             d == display_medical_response(st1, g.value, DOCTORS_DATABASE)
             help(st) == Show(st, "expander", <<"Need help describing symptoms?">>)
         IN /\ page' = "Symptom Analysis"
            /\ symptoms' = text
            /\ submit_button' = submitted
            /\ IF submitted /\ strip(text) # <<>>
               THEN /\ doctors_data' = DOCTORS_DATABASE
                    /\ backend' = b
                    /\ calls' = calls + g.calls
                    /\ IF g.raised
                       THEN /\ response' = response
                            /\ screen' = st0.scr
                            /\ fault' = g.exc
                       ELSE /\ response' = g.value
                            /\ screen' = IF d.exc = NoExc THEN help(d).scr ELSE d.scr
                            /\ fault' = d.exc
               ELSE /\ screen' = IF submitted
                                 THEN help(Show(st0, "error",
                                        <<"Please describe your symptoms before submitting.">>)).scr
                                 ELSE help(st0).scr
                    /\ UNCHANGED <<doctors_data, backend, calls, response, fault>>
    /\ pc' = "done"
    /\ UNCHANGED <<os_environ, dotenv_file, csv_file, groq_api_key, client, cache,
                   DOCTORS_DATABASE, runs>>

\* Page "Find a Doctor" (lines 309-310)
FindADoctor ==
    /\ pc = "main"
    /\ \E term \in SearchTerms,
          sel \in {AllSpecialties} \cup Specialties(DOCTORS_DATABASE) :
         LET d == display_doctors_list(Shown(MainHead(screen)), DOCTORS_DATABASE, term, sel)
         IN /\ screen' = d.scr
            /\ fault' = d.exc
    /\ page' = "Find a Doctor"
    /\ pc' = "done"
    /\ UNCHANGED <<os_environ, dotenv_file, csv_file, groq_api_key, client, cache,
                   DOCTORS_DATABASE, runs, symptoms, submit_button, doctors_data, backend,
                   response, calls>>

\* Page "About Us" (lines 311-342)
AboutUs ==
    /\ pc = "main"
    /\ screen' = Append(MainHead(screen), W("header", <<"About Medical Symptom Analyzer">>))
    /\ page' = "About Us"
    /\ pc' = "done"
    /\ UNCHANGED <<os_environ, dotenv_file, csv_file, groq_api_key, client, cache,
                   DOCTORS_DATABASE, runs, symptoms, submit_button, doctors_data, backend,
                   response, calls, fault>>

\* The next user interaction: Streamlit runs the script again from line 1.
\* The process environment and the st.cache_data entry outlive the run.
Rerun ==
    /\ pc \in {"done", "stopped"}
    /\ runs < MaxRuns
    /\ runs' = runs + 1
    /\ pc' = "load_dotenv"
    /\ groq_api_key' = "undefined"
    /\ client' = "undefined"
    /\ DOCTORS_DATABASE' = <<>>
    /\ page' = "Symptom Analysis"
    /\ symptoms' = <<>>
    /\ submit_button' = FALSE
    /\ doctors_data' = <<>>
    /\ backend' = NoBackend
    /\ response' = EmptyObj
    /\ calls' = 0
    /\ screen' = <<>>
    /\ fault' = NoExc
    /\ UNCHANGED <<os_environ, dotenv_file, csv_file, cache>>

Next ==
    \/ LoadDotenv
    \/ KeyMissing
    \/ KeyFound
    \/ CreateClient
    \/ LoadDatabase
    \/ SymptomAnalysis
    \/ FindADoctor
    \/ AboutUs
    \/ Rerun

Spec == Init /\ [][Next]_vars

(***************************************************************************)
(* generate_medical_response as a function of its arguments and of the    *)
(* backend's behaviour                                                     *)
(***************************************************************************)
InitAnalyze ==
    /\ pc = "call"
    /\ symptoms \in {t \in SymptomTexts : t # <<>>}
    /\ doctors_data \in Directories
    /\ backend \in Backends
    /\ os_environ = "gsk_key"
    /\ dotenv_file = "unset"
    /\ csv_file = NoFile
    /\ groq_api_key = "gsk_key"
    /\ client = "Groq"
    /\ cache = NoCache
    /\ DOCTORS_DATABASE = <<>>
    /\ runs = 1
    /\ page = "Symptom Analysis"
    /\ submit_button = TRUE
    /\ response = EmptyObj
    /\ calls = 0
    /\ screen = <<>>
    /\ fault = NoExc

Analyze ==
    /\ pc = "call"
    /\ LET g == generate_medical_response(symptoms, doctors_data, backend)
       IN /\ response' = g.value
          /\ fault' = g.exc
          /\ calls' = g.calls
          /\ pc' = IF g.raised THEN "raised" ELSE "returned"
    /\ UNCHANGED <<os_environ, dotenv_file, csv_file, groq_api_key, client, cache,
                   DOCTORS_DATABASE, runs, page, symptoms, submit_button, doctors_data,
                   backend, screen>>

NextAnalyze == Analyze

SpecAnalyze == InitAnalyze /\ [][NextAnalyze]_vars

(***************************************************************************)
(* Properties                                                              *)
(***************************************************************************)
\* the text has a character that is not whitespace
NonBlank(s) == \E i \in 1..Len(s) : s[i] # SP

\* the failure-shaped result, spelled out
FailureShaped(r) ==
    /\ DOMAIN r = {"error", "possible_conditions", "recommended_doctors",
                   "general_advice", "disclaimer"}
    /\ r["error"].t = "str"
    /\ r["error"].s # <<>>
    /\ r["possible_conditions"] = [t |-> "list", s |-> <<>>, l |-> <<>>]
    /\ r["recommended_doctors"] = [t |-> "list", s |-> <<>>, l |-> <<>>]
    /\ r["general_advice"] =
          [t |-> "str", s |-> <<"Unable to analyze symptoms at this time.">>, l |-> <<>>]
    /\ r["disclaimer"] =
          [t |-> "str",
           s |-> <<"This is not medical advice. Please consult a healthcare professional.">>,
           l |-> <<>>]

\* the backend was called and the call raised, or returned no usable text
BackendFailed ==
    /\ calls >= 1
    /\ \/ backend.kind = "raise"
       \/ /\ backend.kind = "return"
          /\ backend.choices # <<>>
          /\ \/ backend.choices[1].isNone
             \/ ~IsObjectText(backend.choices[1].toks)

\* the backend was called and returned the text of a JSON object
BackendReturnedObject ==
    /\ calls >= 1
    /\ backend.kind = "return"
    /\ backend.choices # <<>>
    /\ ~backend.choices[1].isNone
    /\ IsObjectText(backend.choices[1].toks)

\* C1: when the completion call raises, or returns a text that is not JSON,
\* generate_medical_response returns the failure-shaped result: a non-empty
\* error text, both lists empty, the fixed advice and the fixed disclaimer.
C1_FailureResultOnBackendFault ==
    (pc # "call" /\ BackendFailed) => (pc = "returned" /\ FailureShaped(response))

\* C1 witness: the call raised an exception whose str() is empty and the
\* result still carries an error text
C1_Witness ==
    /\ pc = "returned"
    /\ backend.kind = "raise"
    /\ backend.exc.msg = <<>>
    /\ response["error"].s = <<"An error occurred: ">>

\* C2: a backend response that is JSON but violates the schema is recovered
\* into the failure-shaped result, as a backend outage is.
C2_SchemaViolationRecovered ==
    (pc # "call" /\ BackendReturnedObject
       /\ ~Conforms(json_loads(backend.choices[1]).value))
    => (pc = "returned" /\ FailureShaped(response))

\* C3: when the call succeeds and returns the text of a conformant object,
\* generate_medical_response returns that object, nothing added, removed or
\* rewritten, and without an error member.
C3_ConformantObjectUnchanged ==
    \A o \in Objects :
       (pc # "call" /\ calls >= 1 /\ Conforms(o)
          /\ backend = Returns(<<Text(Serialize(o, KeysOf(o)))>>))
       => (pc = "returned" /\ response = o /\ "error" \notin DOMAIN response)

\* C3 witness: an object whose likelihood literal is in upper case came back
C3_Witness ==
    /\ pc = "returned"
    /\ backend = Returns(<<Text(Serialize(ObjUpper, KeysOf(ObjUpper)))>>)
    /\ response["possible_conditions"].l[1]["likelihood"].s = <<"HIGH">>

\* C4: every result with an error member has both lists empty and the fixed
\* advice and disclaimer.
C4_ErrorImpliesFallback ==
    (pc = "returned" /\ "error" \in DOMAIN response) => FailureShaped(response)

\* C5: generate_medical_response never raises, whatever the symptoms, the
\* directory and the backend do.
C5_NeverRaises == pc # "raised"

\* C6: a form submission issues one completion call when the symptoms are not
\* blank and none when they are (the validation error is shown instead); never
\* more than one; a call that raised is not reissued and shows as an error
\* result.
C6_OneCallPerSubmission ==
    /\ calls <= 1
    /\ (pc = "done" /\ ~(page = "Symptom Analysis" /\ submit_button)) => calls = 0
    /\ (pc = "done" /\ page = "Symptom Analysis" /\ submit_button) =>
          /\ calls = IF NonBlank(symptoms) THEN 1 ELSE 0
          /\ ~NonBlank(symptoms) =>
                /\ response = EmptyObj
                /\ \E i \in 1..Len(screen) :
                      screen[i] = [w |-> "error",
                                   s |-> <<"Please describe your symptoms before submitting.">>]
          /\ (NonBlank(symptoms) /\ backend.kind = "raise") =>
                /\ "error" \in DOMAIN response
                /\ \E i \in 1..Len(screen) : screen[i].w = "error"

\* C6 witness: symptoms padded with whitespace were submitted, the one call
\* raised, and the run ended with the error result
C6_Witness ==
    /\ pc = "done"
    /\ submit_button
    /\ symptoms = <<SP, "cough", SP>>
    /\ backend.kind = "raise"
    /\ calls = 1
    /\ "error" \in DOMAIN response

\* the run rendered the whole result: notice, advice and disclaimer
RenderedSuccess ==
    /\ \E i \in 1..Len(screen) : screen[i].w = "success"
    /\ \E i \in 1..Len(screen) : screen[i].w = "caption"
    /\ \A i \in 1..Len(screen) : screen[i].w \notin {"error", "warning"}

\* the run rendered the error of the result and the fallback text
RenderedError ==
    /\ "error" \in DOMAIN response
    /\ \E i \in 1..Len(screen) :
          screen[i] = [w |-> "error", s |-> <<"Error: ">> \o response["error"].s]
    /\ \E i \in 1..Len(screen) :
          screen[i] = [w |-> "warning", s |-> <<"Unable to analyze symptoms at this time.">>]
    /\ \A i \in 1..Len(screen) : screen[i].w # "success"

\* C7: a submission with symptoms ends with the whole result rendered or with
\* the error rendered, never with an exception raised while rendering.
C7_TwoOutcomes ==
    (pc = "done" /\ page = "Symptom Analysis" /\ submit_button /\ NonBlank(symptoms))
    => (fault = NoExc /\ (RenderedSuccess \/ RenderedError))

\* C8: while the environment read at line 20 has no GROQ_API_KEY (or an empty
\* one), the script is at or before the key check or stopped, no client
\* exists, the directory has not been loaded and no completion call was made.
C8_NoKeyHalts ==
    os_environ \in {"unset", ""} =>
       /\ pc \in {"load_dotenv", "getenv", "stopped"}
       /\ client = "undefined"
       /\ cache = NoCache
       /\ DOCTORS_DATABASE = <<>>
       /\ calls = 0

\* C8 witness: the second run of a script without a key stopped as well
C8_Witness ==
    /\ pc = "stopped"
    /\ os_environ = "unset"
    /\ runs = 2
    /\ \E i \in 1..Len(screen) : screen[i].w = "error"

\* doctors_database.csv is absent or cannot be parsed
Unparsable(f) ==
    \/ ~f.exists
    \/ ~f.decodable
    \/ f.header = <<>>
    \/ \E i \in 1..Len(f.rows) : Len(f.rows[i]) > Len(f.header)

\* C9: with doctors_database.csv absent or unparsable the load returns the
\* built-in directory of three records; the script goes on with it.
C9_FallbackDirectory ==
    (pc \in {"main", "done"} /\ Unparsable(csv_file)) =>
       /\ Len(DOCTORS_DATABASE) = 3
       /\ DOCTORS_DATABASE[1]["name"].s = <<"Dr.", SP, "Alice", SP, "Johnson">>
       /\ DOCTORS_DATABASE[2]["name"].s = <<"Dr.", SP, "Robert", SP, "Smith">>
       /\ DOCTORS_DATABASE[3]["name"].s = <<"Dr.", SP, "Jennifer", SP, "Garcia">>
       /\ \A i \in 1..3 : DOMAIN DOCTORS_DATABASE[i] =
                             {"name", "specialization", "experience", "contact"}

\* C9 witness: a file with a row too long for its header, the page reached
\* with the built-in directory
C9_Witness ==
    /\ pc = "done"
    /\ csv_file.exists
    /\ csv_file.header # <<>>
    /\ Unparsable(csv_file)
    /\ Len(DOCTORS_DATABASE) = 3

\* the record has a non-empty string under key k
HasText(rec, k) == k \in DOMAIN rec /\ rec[k].t = "str" /\ rec[k].s # <<>>

\* C10: every record of the directory the pages work on has a non-empty name
\* and a non-empty specialization.
C10_RecordsUsable ==
    pc \in {"main", "done"} =>
       \A i \in 1..Len(DOCTORS_DATABASE) :
          HasText(DOCTORS_DATABASE[i], "name") /\ HasText(DOCTORS_DATABASE[i], "specialization")

====
